---- MODULE Spec2Model ----
(***************************************************************************)
(* Model of the List Manager ("Practice" component): an ordered collection *)
(* of {id, text} items with add / remove handlers and a case-insensitive   *)
(* substring filter (computed view).                                       *)
(*                                                                         *)
(* Strings are sequences of one-character strings, so that trim(),         *)
(* toLowerCase() and includes() are computed as the JavaScript runtime     *)
(* computes them.  Array indexes returned by findIndex and taken by splice *)
(* are 0-based as in the source; TLA+ sequences are 1-based.               *)
(***************************************************************************)
EXTENDS Integers, Sequences, FiniteSets, TLC

VARIABLES items, newItemText, searchQuery, filteredItems, watchLog, lastOp, removedIds

\* the todo list holds at most MaxTodoItems items
MaxTodoItems == 4
\* the interval timer ticks at most MaxCount times
MaxCount == 2
\* the component re-renders at most MaxUpdates times
MaxUpdates == 2

\* observation of the List Manager: accepted addItem calls since the last
\* removeItem, and the collection length at that point
VARIABLES nonBlankAdds, baseLen

\* App.vue: the todo list and the row button that was activated last
VARIABLES appItems, appLastOp

\* the component with the interval timer: lifecycle phase, hooks invoked so
\* far, live interval handle, counter, registered before-unmount callbacks,
\* pending re-render, status, and the event that was handled last
VARIABLES phase, hookLog, timer, count, beforeUnmountHooks, dirty, status, lifeLastOp

\* README useFetch: the reactive url, the requests that have not settled,
\* the number of requests started, and the three refs the composable returns
VARIABLES apiUrl, inFlight, started, data, error, loading

\* README form: the three refs of the component, the submitForm calls that
\* are waiting for their timeout, and the handler that ran last
VARIABLES formData, errors, submitted, pendingSubmits, formLastOp

\* README course store: state.selectedCourses and the last call of selectCourse
VARIABLES selectedCourses, storeLastOp

listVars == <<items, newItemText, searchQuery, filteredItems, watchLog, lastOp, removedIds>>

countVars == <<nonBlankAdds, baseLen>>

todoVars == <<appItems, appLastOp>>

lifeVars == <<phase, hookLog, timer, count, beforeUnmountHooks, dirty, status, lifeLastOp>>

fetchVars == <<apiUrl, inFlight, started, data, error, loading>>

formVars == <<formData, errors, submitted, pendingSubmits, formLastOp>>

storeVars == <<selectedCourses, storeLastOp>>

\* the state of the examples of README.md
readmeVars == <<fetchVars, formVars, storeVars>>

\* the state of the components
componentVars == <<listVars, countVars, todoVars, lifeVars>>

vars == <<listVars, countVars, todoVars, lifeVars, readmeVars>>

(***************************************************************************)
(* Bounds of the model                                                     *)
(***************************************************************************)
\* addItem is not taken once the collection holds MaxItems items
MaxItems == 4
\* addItem is not taken when it would assign an id above MaxId
MaxId == 4

(***************************************************************************)
(* String literals used by the component and by the modelled user input    *)
(***************************************************************************)
FirstItemText  == <<"F","i","r","s","t"," ","i","t","e","m">>
SecondItemText == <<"S","e","c","o","n","d"," ","i","t","e","m">>
ThirdItemText  == <<"T","h","i","r","d"," ","i","t","e","m">>
FourthItemText == <<"F","o","u","r","t","h"," ","i","t","e","m">>
EmptyText      == << >>
BlankText      == <<" ","\t"," ">>
PaddedText     == <<" ","X"," ">>

\* const items = ref([...])
SeedItems ==
  << [id |-> 1, text |-> FirstItemText],
     [id |-> 2, text |-> SecondItemText],
     [id |-> 3, text |-> ThirdItemText] >>

\* what the user can type into the "Add new item" input
TextInputs == { EmptyText, BlankText, PaddedText, FourthItemText }

\* what the user can type into the "Search items..." input
QueryInputs == { EmptyText, <<"F","I","R","S","T">>, <<"i","t","e","m">>, <<"x">> }

\* arguments removeItem is called with; 0 is an id no item ever carries
IdInputs == 0..MaxId

(***************************************************************************)
(* JavaScript runtime functions the component calls                        *)
(***************************************************************************)
UpperCaseLetters ==
  <<"A","B","C","D","E","F","G","H","I","J","K","L","M",
    "N","O","P","Q","R","S","T","U","V","W","X","Y","Z">>
LowerCaseLetters ==
  <<"a","b","c","d","e","f","g","h","i","j","k","l","m",
    "n","o","p","q","r","s","t","u","v","w","x","y","z">>

\* white space removed by String.prototype.trim
WhiteSpace == {" ", "\t", "\n"}

\* the lower-case letter of every upper-case letter
LowerOf ==
  [c \in {UpperCaseLetters[i] : i \in 1..Len(UpperCaseLetters)} |->
     LowerCaseLetters[CHOOSE i \in 1..Len(UpperCaseLetters) : UpperCaseLetters[i] = c]]

\* String.prototype.toLowerCase, one character
toLowerCaseChar(c) == IF c \in DOMAIN LowerOf THEN LowerOf[c] ELSE c

\* String.prototype.toLowerCase
toLowerCase(s) == [i \in 1..Len(s) |-> toLowerCaseChar(s[i])]

RECURSIVE trimStart(_)
trimStart(s) ==
  IF s # << >> /\ Head(s) \in WhiteSpace THEN trimStart(Tail(s)) ELSE s

RECURSIVE trimEnd(_)
trimEnd(s) ==
  IF s # << >> /\ s[Len(s)] \in WhiteSpace THEN trimEnd(SubSeq(s, 1, Len(s) - 1)) ELSE s

trim_mutIdentity(s) == s

\* String.prototype.trim
trim(s) == trimEnd(trimStart(s))

\* truthiness of a string: only '' is falsy
truthy(s) == s # << >>

\* does needle occur in hay at 0-based offset k
occursAt(hay, needle, k) ==
  /\ k + Len(needle) <= Len(hay)
  /\ \A j \in 1..Len(needle) : hay[k + j] = needle[j]

includes_mutEmptyNeedle(hay, needle) ==
  /\ needle # << >>
  /\ \E k \in 0..Len(hay) : occursAt(hay, needle, k)

\* String.prototype.includes
includes(hay, needle) == \E k \in 0..Len(hay) : occursAt(hay, needle, k)

\* Math.max() of no arguments is -Infinity; -Infinity + 1 is -Infinity
NegInfinity == -1000000

RECURSIVE MathMax(_)
MathMax(ns) ==
  IF ns = << >> THEN NegInfinity
  ELSE LET m == MathMax(Tail(ns))
       IN  IF m = NegInfinity \/ Head(ns) > m THEN Head(ns) ELSE m

plus(a, b) == IF a = NegInfinity THEN NegInfinity ELSE a + b

\* items.value.map(item => item.id)
mapIds(its) == [i \in 1..Len(its) |-> its[i].id]

RECURSIVE findIndexFrom(_, _, _)
findIndexFrom(its, id, i) ==
  IF i > Len(its) THEN -1
  ELSE IF its[i].id = id THEN i - 1
  ELSE findIndexFrom(its, id, i + 1)

\* items.value.findIndex(item => item.id === id): 0-based, -1 when absent
findIndex(its, id) == findIndexFrom(its, id, 1)

splice_mutToEnd(arr, start, deleteCount) ==
  LET from == IF start < 0
                THEN (IF Len(arr) + start < 0 THEN 0 ELSE Len(arr) + start)
                ELSE (IF start > Len(arr) THEN Len(arr) ELSE start)
  IN  SubSeq(arr, 1, from)

\* Array.prototype.splice(start, deleteCount): the array after the deletion.
\* A negative start counts from the end of the array.
splice(arr, start, deleteCount) ==
  LET from == IF start < 0
                THEN (IF Len(arr) + start < 0 THEN 0 ELSE Len(arr) + start)
                ELSE (IF start > Len(arr) THEN Len(arr) ELSE start)
      upto == IF from + deleteCount > Len(arr) THEN Len(arr) ELSE from + deleteCount
  IN  SubSeq(arr, 1, from) \o SubSeq(arr, upto + 1, Len(arr))

push_mutUnshift(arr, x) == <<x>> \o arr

\* Array.prototype.push
push(arr, x) == Append(arr, x)

RECURSIVE filterByText(_, _)
\* items.value.filter(item => item.text.toLowerCase().includes(q))
filterByText(its, q) ==
  IF its = << >> THEN << >>
  ELSE IF includes(toLowerCase(Head(its).text), q)
         THEN <<Head(its)>> \o filterByText(Tail(its), q)
         ELSE filterByText(Tail(its), q)

(***************************************************************************)
(* The component                                                           *)
(***************************************************************************)
filteredItemsOf_mutCaseSensitive(its, query) == filterByText(its, query)

\* const filteredItems = computed(() => ...)
filteredItemsOf(its, query) == filterByText(its, toLowerCase(query))

nextId_mutLength(its) == Len(its) + 1

\* the id addItem assigns
nextId(its) == IF Len(its) > 0 THEN plus(MathMax(mapIds(its)), 1) ELSE 1

\* the collection after addItem() with the given input text
itemsAfterAdd(its, text) ==
  IF truthy(trim(text))
    THEN push(its, [id |-> nextId(its), text |-> text])
    ELSE its

removeFrom_mutNoGuard(its, id) == splice(its, findIndex(its, id), 1)

\* the collection after removeItem(id)
removeFrom(its, id) ==
  LET index == findIndex(its, id)
  IN  IF index # -1 THEN splice(its, index, 1) ELSE its

\* App.vue: const items = ref([...])
AppSeedItems ==
  << [id |-> 1, name |-> <<"Item", 1>>, completed |-> FALSE],
     [id |-> 2, name |-> <<"Item", 2>>, completed |-> TRUE],
     [id |-> 3, name |-> <<"Item", 3>>, completed |-> FALSE] >>

renderItemsList_mutMoreThanOne(view) == Len(view) > 1

\* <ul v-if="filteredItems.length > 0">: is the display list rendered
renderItemsList(view) == Len(view) > 0

\* <p v-else>: is the "No items found..." message rendered
renderEmptyMessage(view) == ~renderItemsList(view)

\* const apiUrl = ref('https://api.example.com/posts')
PostsUrl == "https://api.example.com/posts"

\* ref(null)
Null == [kind |-> "null", url |-> "", req |-> 0]

\* const formData = ref({ name: '', email: '', message: '' })
EmptyForm == [name |-> EmptyText, email |-> EmptyText, message |-> EmptyText]

\* const errors = ref({}); errors.value = {}
NoErrors == [f \in {} |-> ""]

\* no call yet
NoCourse == [id |-> 0, title |-> ""]

Init ==
  /\ items = SeedItems
  /\ newItemText = EmptyText
  /\ searchQuery = EmptyText
  /\ filteredItems = filteredItemsOf(SeedItems, EmptyText)
  /\ watchLog = [called |-> FALSE, newValue |-> EmptyText]
  /\ lastOp = [op |-> "setup", id |-> 0, index |-> -1]
  /\ removedIds = {}
  /\ nonBlankAdds = 0
  /\ baseLen = Len(SeedItems)
  /\ appItems = AppSeedItems
  /\ appLastOp = [op |-> "setup", row |-> 0]
  /\ phase = "created"
  /\ hookLog = <<"setup">>
  /\ timer = FALSE
  /\ count = 0
  /\ beforeUnmountHooks = << >>
  /\ dirty = FALSE
  /\ status = "active"
  /\ lifeLastOp = "setup"
  /\ apiUrl = PostsUrl
  /\ inFlight = {[req |-> 1, url |-> PostsUrl]}
  /\ started = 1
  /\ data = Null
  /\ error = Null
  /\ loading = TRUE
  /\ formData = EmptyForm
  /\ errors = NoErrors
  /\ submitted = FALSE
  /\ pendingSubmits = 0
  /\ formLastOp = [op |-> "setup", valid |-> FALSE]
  /\ selectedCourses = << >>
  /\ storeLastOp = [op |-> "setup", course |-> NoCourse, result |-> FALSE]

\* v-model="newItemText": the user edits the "Add new item" input
setNewItemText(text) ==
  /\ newItemText' = text
  /\ lastOp' = [op |-> "setNewItemText", id |-> 0, index |-> -1]
  /\ UNCHANGED <<items, searchQuery, filteredItems, watchLog, removedIds>>
  /\ UNCHANGED <<countVars, todoVars, lifeVars, readmeVars>>

setSearchQuery_mutAssign(query) ==
  /\ searchQuery' = query
  /\ items' = filteredItemsOf(items, query)
  /\ filteredItems' = filteredItemsOf(items', query)
  /\ watchLog' = IF query # searchQuery
                   THEN [called |-> TRUE, newValue |-> query]
                   ELSE watchLog
  /\ lastOp' = [op |-> "setSearchQuery", id |-> 0, index |-> -1]
  /\ UNCHANGED <<newItemText, removedIds>>
  /\ UNCHANGED <<countVars, todoVars, lifeVars, readmeVars>>

\* v-model="searchQuery": the user edits the search input; the computed view
\* is re-evaluated and the watcher logs the new value when it changed
setSearchQuery(query) ==
  /\ searchQuery' = query
  /\ items' = items
  /\ filteredItems' = filteredItemsOf(items', query)
  /\ watchLog' = IF query # searchQuery
                   THEN [called |-> TRUE, newValue |-> query]
                   ELSE watchLog
  /\ lastOp' = [op |-> "setSearchQuery", id |-> 0, index |-> -1]
  /\ UNCHANGED <<newItemText, removedIds>>
  /\ UNCHANGED <<countVars, todoVars, lifeVars, readmeVars>>

addItem_mutClearsQuery ==
  /\ truthy(trim(newItemText)) => (Len(items) < MaxItems /\ nextId(items) <= MaxId)
  /\ items' = itemsAfterAdd(items, newItemText)
  /\ newItemText' = IF truthy(trim(newItemText)) THEN EmptyText ELSE newItemText
  /\ searchQuery' = IF truthy(trim(newItemText)) THEN EmptyText ELSE searchQuery
  /\ filteredItems' = filteredItemsOf(items', searchQuery')
  /\ lastOp' = [op |-> "addItem",
                id |-> IF truthy(trim(newItemText)) THEN nextId(items) ELSE 0,
                index |-> -1]
  /\ UNCHANGED <<watchLog, removedIds>>
  /\ UNCHANGED <<countVars, todoVars, lifeVars, readmeVars>>

addItem_mutAlwaysClears ==
  /\ truthy(trim(newItemText)) => (Len(items) < MaxItems /\ nextId(items) <= MaxId)
  /\ items' = itemsAfterAdd(items, newItemText)
  /\ newItemText' = EmptyText
  /\ filteredItems' = filteredItemsOf(items', searchQuery)
  /\ lastOp' = [op |-> "addItem",
                id |-> IF truthy(trim(newItemText)) THEN nextId(items) ELSE 0,
                index |-> -1]
  /\ UNCHANGED <<searchQuery, watchLog, removedIds>>
  /\ UNCHANGED <<countVars, todoVars, lifeVars, readmeVars>>

\* function addItem(), bound to the Add button and to Enter in the input
addItem ==
  /\ truthy(trim(newItemText)) => (Len(items) < MaxItems /\ nextId(items) <= MaxId)
  /\ items' = itemsAfterAdd(items, newItemText)
  /\ newItemText' = IF truthy(trim(newItemText)) THEN EmptyText ELSE newItemText
  /\ filteredItems' = filteredItemsOf(items', searchQuery)
  /\ lastOp' = [op |-> "addItem",
                id |-> IF truthy(trim(newItemText)) THEN nextId(items) ELSE 0,
                index |-> -1]
  /\ UNCHANGED <<searchQuery, watchLog, removedIds>>
  /\ UNCHANGED <<countVars, todoVars, lifeVars, readmeVars>>

\* function removeItem(id), bound to the Remove button of a row
removeItem(id) ==
  /\ items' = removeFrom(items, id)
  /\ filteredItems' = filteredItemsOf(items', searchQuery)
  /\ lastOp' = [op |-> "removeItem", id |-> id, index |-> findIndex(items, id)]
  /\ UNCHANGED <<newItemText, searchQuery, watchLog, removedIds>>
  /\ UNCHANGED <<countVars, todoVars, lifeVars, readmeVars>>

Next ==
  \/ \E text \in TextInputs : setNewItemText(text)
  \/ \E query \in QueryInputs : setSearchQuery(query)
  \/ addItem
  \/ \E id \in IdInputs : removeItem(id)

Spec == Init /\ [][Next]_vars

(***************************************************************************)
(* The same component observed with a record of the ids that have been     *)
(* removed so far (removedIds is not program state; Spec leaves it empty). *)
(***************************************************************************)
removeItemRecorded(id) ==
  /\ items' = removeFrom(items, id)
  /\ filteredItems' = filteredItemsOf(items', searchQuery)
  /\ lastOp' = [op |-> "removeItem", id |-> id, index |-> findIndex(items, id)]
  /\ removedIds' = IF findIndex(items, id) # -1 THEN removedIds \cup {id} ELSE removedIds
  /\ UNCHANGED <<newItemText, searchQuery, watchLog>>
  /\ UNCHANGED <<countVars, todoVars, lifeVars, readmeVars>>

NextRecorded ==
  \/ \E text \in TextInputs : setNewItemText(text)
  \/ \E query \in QueryInputs : setSearchQuery(query)
  \/ addItem
  \/ \E id \in IdInputs : removeItemRecorded(id)

SpecRecorded == Init /\ [][NextRecorded]_vars

(***************************************************************************)
(* The same component observed with a count of the addItem calls made with *)
(* a non-blank text since the last removeItem call, and the length of the  *)
(* collection when that count started (neither is program state).          *)
(***************************************************************************)
addItemCounted ==
  /\ truthy(trim(newItemText)) => (Len(items) < MaxItems /\ nextId(items) <= MaxId)
  /\ items' = itemsAfterAdd(items, newItemText)
  /\ newItemText' = IF truthy(trim(newItemText)) THEN EmptyText ELSE newItemText
  /\ filteredItems' = filteredItemsOf(items', searchQuery)
  /\ lastOp' = [op |-> "addItem",
                id |-> IF truthy(trim(newItemText)) THEN nextId(items) ELSE 0,
                index |-> -1]
  /\ nonBlankAdds' = IF \E i \in 1..Len(newItemText) : newItemText[i] \notin WhiteSpace
                       THEN nonBlankAdds + 1
                       ELSE nonBlankAdds
  /\ UNCHANGED <<searchQuery, watchLog, removedIds, baseLen>>
  /\ UNCHANGED <<todoVars, lifeVars, readmeVars>>

removeItemCounted(id) ==
  /\ items' = removeFrom(items, id)
  /\ filteredItems' = filteredItemsOf(items', searchQuery)
  /\ lastOp' = [op |-> "removeItem", id |-> id, index |-> findIndex(items, id)]
  /\ nonBlankAdds' = 0
  /\ baseLen' = Len(items')
  /\ UNCHANGED <<newItemText, searchQuery, watchLog, removedIds>>
  /\ UNCHANGED <<todoVars, lifeVars, readmeVars>>

NextCounted ==
  \/ \E text \in TextInputs : setNewItemText(text)
  \/ \E query \in QueryInputs : setSearchQuery(query)
  \/ addItemCounted
  \/ \E id \in IdInputs : removeItemCounted(id)

SpecCounted == Init /\ [][NextCounted]_vars


(***************************************************************************)
(* App.vue: the todo list                                                  *)
(***************************************************************************)
\* addItem: const id = items.value.length + 1
appNextId(its) == Len(its) + 1

\* the todo list after addItem()
appItemsAfterAdd(its) ==
  push(its, [id |-> appNextId(its), name |-> <<"Item", appNextId(its)>>, completed |-> FALSE])

\* the todo list after removeItem(id)
appRemoveItem(its, id) ==
  LET index == findIndex(its, id)
  IN  IF index # -1 THEN splice(its, index, 1) ELSE its

\* const activeItemsCount = computed(() =>
\*   items.value.filter(item => !item.completed).length)
activeItemsCount(its) == Len(SelectSeq(its, LAMBDA item : ~item.completed))

toggleItemCompletion_mutSetsCompleted(its, id) ==
  LET index == findIndex(its, id)
  IN  IF index # -1
        THEN [its EXCEPT ![index + 1].completed = TRUE]
        ELSE its

\* the todo list after toggleItemCompletion(id): find returns the first item
\* with that id, or undefined
toggleItemCompletion(its, id) ==
  LET index == findIndex(its, id)
  IN  IF index # -1
        THEN [its EXCEPT ![index + 1].completed = ~its[index + 1].completed]
        ELSE its

\* @click="addItem"
appAddItem ==
  /\ Len(appItems) < MaxTodoItems
  /\ appItems' = appItemsAfterAdd(appItems)
  /\ appLastOp' = [op |-> "addItem", row |-> Len(appItems')]
  /\ UNCHANGED <<listVars, countVars, lifeVars, readmeVars>>

\* @click.stop="removeItem(item.id)" on the row-th <li>
clickRemove(row) ==
  /\ row \in 1..Len(appItems)
  /\ appItems' = appRemoveItem(appItems, appItems[row].id)
  /\ appLastOp' = [op |-> "removeItem", row |-> row]
  /\ UNCHANGED <<listVars, countVars, lifeVars, readmeVars>>

\* @click="toggleItemCompletion(item.id)" on the row-th <li>
clickToggleCompletion(row) ==
  /\ row \in 1..Len(appItems)
  /\ appItems' = toggleItemCompletion(appItems, appItems[row].id)
  /\ appLastOp' = [op |-> "toggleItemCompletion", row |-> row]
  /\ UNCHANGED <<listVars, countVars, lifeVars, readmeVars>>

NextTodo ==
  \/ appAddItem
  \/ \E row \in 1..MaxTodoItems : clickRemove(row)
  \/ \E row \in 1..MaxTodoItems : clickToggleCompletion(row)

SpecTodo == Init /\ [][NextTodo]_vars

\* ids toggleItemCompletion is called with, present or not
TodoIdInputs == 0..MaxTodoItems

\* function toggleItemCompletion(id) called with any id
callToggleItemCompletion(id) ==
  /\ appItems' = toggleItemCompletion(appItems, id)
  /\ appLastOp' = [op |-> "toggleItemCompletion(id)", row |-> 0, id |-> id]
  /\ UNCHANGED <<listVars, countVars, lifeVars, readmeVars>>

NextTodoCalls ==
  \/ appAddItem
  \/ \E row \in 1..MaxTodoItems : clickRemove(row)
  \/ \E id \in TodoIdInputs : callToggleItemCompletion(id)

SpecTodoCalls == Init /\ [][NextTodoCalls]_vars

(***************************************************************************)
(* README.md, useFetch(url) with a reactive url.  useFetch runs fetchData  *)
(* once when it is called (watchEffect runs its effect immediately), and   *)
(* the effect reads only the url, so it runs again when the url changes.   *)
(* Each run starts a request; a request settles later, in any order, by    *)
(* running the .then(json => ...) or the .catch(err => ...) callback.      *)
(***************************************************************************)
\* useFetch starts at most MaxRequests requests
MaxRequests == 4

\* apiUrl.value = 'https://api.example.com/posts?category=vue'
VuePostsUrl == "https://api.example.com/posts?category=vue"

\* the values the url takes
UrlInputs == {PostsUrl, VuePostsUrl}

\* what res.json() resolves to for a request: the response to its url
jsonOf(request) == [kind |-> "json", url |-> request.url, req |-> request.req]

\* what a failed request rejects with
errOf(request) == [kind |-> "err", url |-> request.url, req |-> request.req]

\* function fetchData(): resets the three refs and starts a request for the
\* current value of the url
fetchData(url) ==
  /\ data' = Null
  /\ error' = Null
  /\ loading' = TRUE
  /\ started' = started + 1
  /\ inFlight' = inFlight \cup {[req |-> started + 1, url |-> url]}

\* apiUrl.value = url: a changed value re-runs the effect, fetchData
setApiUrl(url) ==
  /\ url # apiUrl
  /\ started < MaxRequests
  /\ apiUrl' = url
  /\ fetchData(url)
  /\ UNCHANGED <<componentVars, formVars, storeVars>>

\* .then(json => { data.value = json; loading.value = false })
requestResolved(request) ==
  /\ request \in inFlight
  /\ inFlight' = inFlight \ {request}
  /\ data' = jsonOf(request)
  /\ loading' = FALSE
  /\ UNCHANGED <<apiUrl, started, error>>
  /\ UNCHANGED <<componentVars, formVars, storeVars>>

\* .catch(err => { error.value = err; loading.value = false })
requestRejected(request) ==
  /\ request \in inFlight
  /\ inFlight' = inFlight \ {request}
  /\ error' = errOf(request)
  /\ loading' = FALSE
  /\ UNCHANGED <<apiUrl, started, data>>
  /\ UNCHANGED <<componentVars, formVars, storeVars>>

\* every request useFetch can have started
Requests == [req : 1..MaxRequests, url : UrlInputs]

NextFetch ==
  \/ \E url \in UrlInputs : setApiUrl(url)
  \/ \E request \in Requests : requestResolved(request)
  \/ \E request \in Requests : requestRejected(request)

SpecFetch == Init /\ [][NextFetch]_vars

(***************************************************************************)
(* README.md, "Working with Forms": a form with three fields, validated    *)
(* when it is submitted.  submitForm is async: after a successful          *)
(* validation it waits for a one-second timeout; the form stays on the     *)
(* page meanwhile, so it can be edited and submitted again.                *)
(***************************************************************************)
\* at most MaxPendingSubmits calls of submitForm wait for their timeout
MaxPendingSubmits == 2

\* what the user can type into the fields
NameInputs == { EmptyText, <<"A","l">> }

EmailInputs ==
  { EmptyText,
    <<"a","@","b",".","c">>,
    <<"a","@","b">>,
    <<"@","b",".","c">>,
    <<"a"," ","@","b",".","c">> }

MessageInputs == { EmptyText, <<"H","i">> }

\* /^\S+@\S+\.\S+$/.test(s): no white space anywhere, an "@" after at least
\* one character and, at least one character later, a "." that is not last
emailPatternTest(s) ==
  /\ \A k \in 1..Len(s) : s[k] \notin WhiteSpace
  /\ \E i \in 2..Len(s) :
       /\ s[i] = "@"
       /\ \E j \in (i + 2)..(Len(s) - 1) : s[j] = "."

validationErrors_mutNoPattern(form) ==
  LET failed == (IF ~truthy(form.name) THEN {"name"} ELSE {})
                \cup (IF ~truthy(form.email) THEN {"email"} ELSE {})
                \cup (IF ~truthy(form.message) THEN {"message"} ELSE {})
  IN  [f \in failed |->
         IF f = "name" THEN "Name is required"
         ELSE IF f = "email" THEN "Email is required"
         ELSE "Message is required"]

\* validateForm: the value of errors after the three checks
validationErrors(form) ==
  LET failed == (IF ~truthy(form.name) THEN {"name"} ELSE {})
                \cup (IF ~truthy(form.email) \/ ~emailPatternTest(form.email)
                        THEN {"email"} ELSE {})
                \cup (IF ~truthy(form.message) THEN {"message"} ELSE {})
  IN  [f \in failed |->
         IF f = "name" THEN "Name is required"
         ELSE IF f = "email"
           THEN (IF ~truthy(form.email) THEN "Email is required" ELSE "Email is invalid")
         ELSE "Message is required"]

\* validateForm: return Object.keys(errors.value).length === 0
validateForm(form) == Cardinality(DOMAIN validationErrors(form)) = 0

\* v-model="formData.name"
setName(text) ==
  /\ ~submitted
  /\ formData' = [formData EXCEPT !.name = text]
  /\ formLastOp' = [op |-> "setName", valid |-> FALSE]
  /\ UNCHANGED <<errors, submitted, pendingSubmits>>
  /\ UNCHANGED <<componentVars, fetchVars, storeVars>>

\* v-model="formData.email"
setEmail(text) ==
  /\ ~submitted
  /\ formData' = [formData EXCEPT !.email = text]
  /\ formLastOp' = [op |-> "setEmail", valid |-> FALSE]
  /\ UNCHANGED <<errors, submitted, pendingSubmits>>
  /\ UNCHANGED <<componentVars, fetchVars, storeVars>>

\* v-model="formData.message"
setMessage(text) ==
  /\ ~submitted
  /\ formData' = [formData EXCEPT !.message = text]
  /\ formLastOp' = [op |-> "setMessage", valid |-> FALSE]
  /\ UNCHANGED <<errors, submitted, pendingSubmits>>
  /\ UNCHANGED <<componentVars, fetchVars, storeVars>>

\* @submit.prevent="submitForm", up to the await: validateForm runs and,
\* when it returns true, the call waits for its timeout
submitForm ==
  /\ ~submitted
  /\ validateForm(formData) => pendingSubmits < MaxPendingSubmits
  /\ errors' = validationErrors(formData)
  /\ pendingSubmits' = IF validateForm(formData) THEN pendingSubmits + 1 ELSE pendingSubmits
  /\ formLastOp' = [op |-> "submitForm", valid |-> validateForm(formData)]
  /\ UNCHANGED <<formData, submitted>>
  /\ UNCHANGED <<componentVars, fetchVars, storeVars>>

\* submitForm after the await: the timeout of a waiting call has fired
submitFormResumed ==
  /\ pendingSubmits > 0
  /\ submitted' = TRUE
  /\ formData' = [name |-> EmptyText, email |-> EmptyText, message |-> EmptyText]
  /\ pendingSubmits' = pendingSubmits - 1
  /\ formLastOp' = [op |-> "submitFormResumed", valid |-> TRUE]
  /\ UNCHANGED errors
  /\ UNCHANGED <<componentVars, fetchVars, storeVars>>

NextForm ==
  \/ \E text \in NameInputs : setName(text)
  \/ \E text \in EmailInputs : setEmail(text)
  \/ \E text \in MessageInputs : setMessage(text)
  \/ submitForm
  \/ submitFormResumed

SpecForm == Init /\ [][NextForm]_vars

(***************************************************************************)
(* README.md, "State Management with Pinia": the selectCourse action of    *)
(* the course store.                                                       *)
(***************************************************************************)
\* courses have ids 1..MaxCourseId
MaxCourseId == 3

\* the courses selectCourse is called with: two different courses per id
CourseInputs == [id : 1..MaxCourseId, title : {"Vue", "Pinia"}]

isSelected_mutSameCourse(selected, course) ==
  \E i \in 1..Len(selected) : selected[i] = course

\* this.selectedCourses.some(c => c.id === course.id)
isSelected(selected, course) ==
  \E i \in 1..Len(selected) : selected[i].id = course.id

\* selectCourse(course)
selectCourse(course) ==
  /\ selectedCourses' = IF isSelected(selectedCourses, course)
                           THEN selectedCourses
                           ELSE push(selectedCourses, course)
  /\ storeLastOp' = [op |-> "selectCourse", course |-> course,
                     result |-> ~isSelected(selectedCourses, course)]
  /\ UNCHANGED <<componentVars, fetchVars, formVars>>

NextStore == \E course \in CourseInputs : selectCourse(course)

SpecStore == Init /\ [][NextStore]_vars

(***************************************************************************)
(* The component with the interval timer.  The host framework drives the   *)
(* lifecycle: it invokes the registered callbacks at the documented points *)
(* and runs every handler to completion before the next event.             *)
(***************************************************************************)
toggleStatusOf_mutFallThrough(s) ==
  IF s = "active" \/ s = "inactive" THEN "unknown" ELSE "active"

\* function toggleStatus()
toggleStatusOf(s) ==
  IF s = "active" THEN "inactive"
  ELSE IF s = "inactive" THEN "unknown"
  ELSE "active"

\* <p v-if="status === 'active'"> / <p v-else-if="status === 'inactive'"> /
\* <p v-else>: the paragraphs that are rendered
statusParagraphs(s) ==
  (IF s = "active" THEN {"The status is active"} ELSE {})
  \cup (IF s # "active" /\ s = "inactive" THEN {"The status is inactive"} ELSE {})
  \cup (IF s # "active" /\ s # "inactive" THEN {"The status is unknown"} ELSE {})

registerCleanup_mutForgotten(hooks) == hooks

\* onMounted: onBeforeUnmount(() => { clearInterval(timer) })
registerCleanup(hooks) == Append(hooks, "clearInterval")

\* how many re-renders have started
updatesStarted == Cardinality({i \in 1..Len(hookLog) : hookLog[i] = "onBeforeUpdate"})

\* the host calls the onBeforeMount callback
hostBeforeMount ==
  /\ phase = "created"
  /\ phase' = "mounting"
  /\ hookLog' = Append(hookLog, "onBeforeMount")
  /\ lifeLastOp' = "onBeforeMount"
  /\ UNCHANGED <<timer, count, beforeUnmountHooks, dirty, status>>
  /\ UNCHANGED <<listVars, countVars, todoVars, readmeVars>>

\* the host calls the onMounted callback: setInterval, and the cleanup is
\* registered for before-unmount
hostMounted ==
  /\ phase = "mounting"
  /\ phase' = "mounted"
  /\ hookLog' = Append(hookLog, "onMounted")
  /\ timer' = TRUE
  /\ beforeUnmountHooks' = registerCleanup(beforeUnmountHooks)
  /\ lifeLastOp' = "onMounted"
  /\ UNCHANGED <<count, dirty, status>>
  /\ UNCHANGED <<listVars, countVars, todoVars, readmeVars>>

\* the interval fires: count.value++
timerTick ==
  /\ timer
  /\ phase \in {"mounted", "unmounted"}
  /\ count < MaxCount
  /\ count' = count + 1
  /\ dirty' = IF phase = "mounted" THEN TRUE ELSE dirty
  /\ lifeLastOp' = "tick"
  /\ UNCHANGED <<phase, hookLog, timer, beforeUnmountHooks, status>>
  /\ UNCHANGED <<listVars, countVars, todoVars, readmeVars>>

\* @click="toggleStatus"
toggleStatus ==
  /\ phase = "mounted"
  /\ status' = toggleStatusOf(status)
  /\ dirty' = TRUE
  /\ lifeLastOp' = "toggleStatus"
  /\ UNCHANGED <<phase, hookLog, timer, count, beforeUnmountHooks>>
  /\ UNCHANGED <<listVars, countVars, todoVars, readmeVars>>

\* the host starts a scheduled re-render: the onBeforeUpdate callback
hostBeforeUpdate ==
  /\ dirty
  /\ phase \in {"mounted", "unmounted"}
  /\ updatesStarted < MaxUpdates
  /\ phase' = "updating"
  /\ dirty' = FALSE
  /\ hookLog' = Append(hookLog, "onBeforeUpdate")
  /\ lifeLastOp' = "onBeforeUpdate"
  /\ UNCHANGED <<timer, count, beforeUnmountHooks, status>>
  /\ UNCHANGED <<listVars, countVars, todoVars, readmeVars>>

\* the host has patched the DOM: the onUpdated callback
hostUpdated ==
  /\ phase = "updating"
  /\ phase' = "mounted"
  /\ hookLog' = Append(hookLog, "onUpdated")
  /\ lifeLastOp' = "onUpdated"
  /\ UNCHANGED <<timer, count, beforeUnmountHooks, dirty, status>>
  /\ UNCHANGED <<listVars, countVars, todoVars, readmeVars>>

hostBeforeUnmount_mutKeepsUpdate ==
  /\ phase = "mounted"
  /\ phase' = "unmounting"
  /\ hookLog' = IF beforeUnmountHooks # << >>
                  THEN Append(hookLog, "onBeforeUnmount")
                  ELSE hookLog
  /\ timer' = IF \E i \in 1..Len(beforeUnmountHooks) : beforeUnmountHooks[i] = "clearInterval"
                THEN FALSE
                ELSE timer
  /\ lifeLastOp' = "onBeforeUnmount"
  /\ UNCHANGED <<count, beforeUnmountHooks, dirty, status>>
  /\ UNCHANGED <<listVars, countVars, todoVars, readmeVars>>

\* the host tears the component down: it calls the registered before-unmount
\* callbacks and drops a re-render that is still scheduled
hostBeforeUnmount ==
  /\ phase = "mounted"
  /\ phase' = "unmounting"
  /\ hookLog' = IF beforeUnmountHooks # << >>
                  THEN Append(hookLog, "onBeforeUnmount")
                  ELSE hookLog
  /\ timer' = IF \E i \in 1..Len(beforeUnmountHooks) : beforeUnmountHooks[i] = "clearInterval"
                THEN FALSE
                ELSE timer
  /\ dirty' = FALSE
  /\ lifeLastOp' = "onBeforeUnmount"
  /\ UNCHANGED <<count, beforeUnmountHooks, status>>
  /\ UNCHANGED <<listVars, countVars, todoVars, readmeVars>>

\* the host calls the onUnmounted callback
hostUnmounted ==
  /\ phase = "unmounting"
  /\ phase' = "unmounted"
  /\ hookLog' = Append(hookLog, "onUnmounted")
  /\ lifeLastOp' = "onUnmounted"
  /\ UNCHANGED <<timer, count, beforeUnmountHooks, dirty, status>>
  /\ UNCHANGED <<listVars, countVars, todoVars, readmeVars>>

NextLifecycle ==
  \/ hostBeforeMount
  \/ hostMounted
  \/ timerTick
  \/ toggleStatus
  \/ hostBeforeUpdate
  \/ hostUpdated
  \/ hostBeforeUnmount
  \/ hostUnmounted

SpecLifecycle == Init /\ [][NextLifecycle]_vars

(***************************************************************************)
(* Properties of the List Manager                                          *)
(***************************************************************************)
\* a string with at least one character that is not white space
NonBlank(s) == \E i \in 1..Len(s) : s[i] \notin WhiteSpace

\* the set of ids carried by the items of a collection
IdsOf(its) == {its[i].id : i \in 1..Len(its)}

\* C1: in every state reachable from the seed by addItem and removeItem, the
\* ids of the live items are pairwise distinct positive integers.
C1_DistinctPositiveIds ==
  \A i, j \in 1..Len(items) :
    /\ items[i].id \in Nat
    /\ items[i].id > 0
    /\ (i # j => items[i].id # items[j].id)

\* id 3 was removed and assigned again, next to the still live ids 1 and 2
C1_Witness ==
  /\ lastOp.op = "addItem"
  /\ lastOp.id = 3
  /\ mapIds(items) = <<1, 2, 3>>
  /\ items[3].text # ThirdItemText

\* C2: addItem with a text that is non-empty after trimming appends exactly
\* one item {id, text} at the end, id being the maximum id at call time plus
\* one, or 1 for an empty collection; the items already present keep their
\* position, id and text.
C2_AddAppendsMaxPlusOne ==
  [][ (lastOp'.op = "addItem" /\ NonBlank(newItemText)) =>
        /\ Len(items') = Len(items) + 1
        /\ \A i \in 1..Len(items) : items'[i] = items[i]
        /\ items'[Len(items')].text = newItemText
        /\ items'[Len(items')].id =
             IF items = << >> THEN 1
             ELSE 1 + (CHOOSE m \in IdsOf(items) : \A n \in IdsOf(items) : n <= m)
    ]_vars

\* the collection was emptied, then two items were added: ids 1 and 2
C2_Witness ==
  /\ lastOp.op = "addItem"
  /\ lastOp.id = 2
  /\ Len(items) = 2
  /\ items[1] = [id |-> 1, text |-> PaddedText]
  /\ items[2] = [id |-> 2, text |-> FourthItemText]

\* C3: addItem is a no-op on the collection when the text is empty or only
\* white space.
C3_BlankAddIsNoOp ==
  [][ (lastOp'.op = "addItem" /\ ~NonBlank(newItemText)) => items' = items ]_vars

\* addItem ran on a white-space-only input
C3_Witness ==
  /\ lastOp.op = "addItem"
  /\ lastOp.id = 0
  /\ newItemText = BlankText
  /\ Len(items) = 3

\* C4: after every accepted addItem the length has grown by exactly one and
\* the new item's id is greater than the id of every item present at call
\* time.
C4_AddGrowsByOneWithGreaterId ==
  [][ (lastOp'.op = "addItem" /\ NonBlank(newItemText)) =>
        /\ Len(items') = Len(items) + 1
        /\ \A n \in IdsOf(items) : items'[Len(items')].id > n
    ]_vars

\* an accepted addItem on a collection whose length differs from its maximum id
C4_Witness ==
  /\ lastOp.op = "addItem"
  /\ lastOp.id = 4
  /\ mapIds(items) = <<2, 3, 4>>

\* C5: once an item with id k has been removed, no later addItem assigns id k
\* to a new item.
C5_RemovedIdNeverReused ==
  \A i \in 1..Len(items) : items[i].id \notin removedIds

\* C6: removeItem(id) with a present id deletes exactly one item, the first
\* with that id; the other items keep their relative order, ids and texts and
\* the length decreases by exactly one.
C6_RemoveDeletesExactlyThatItem ==
  [][ \A id \in IdInputs :
        (lastOp'.op = "removeItem" /\ lastOp'.id = id /\ id \in IdsOf(items)) =>
          \E i \in 1..Len(items) :
            /\ items[i].id = id
            /\ \A j \in 1..(i - 1) : items[j].id # id
            /\ Len(items') = Len(items) - 1
            /\ \A j \in 1..(i - 1) : items'[j] = items[j]
            /\ \A j \in i..Len(items') : items'[j] = items[j + 1]
    ]_vars

\* the second of four items was removed
C6_Witness ==
  /\ lastOp = [op |-> "removeItem", id |-> 2, index |-> 1]
  /\ mapIds(items) = <<1, 3, 4>>

\* C7: removeItem(id) with an id that is not in the collection leaves the
\* collection unchanged, and no addItem or removeItem step ends in an error
\* state: the collection is still a sequence of items with a positive
\* integer id (never -Infinity) and a non-blank text.
C7_AbsentRemoveIsNoOp ==
  [][ /\ \A id \in IdInputs :
           (lastOp'.op = "removeItem" /\ lastOp'.id = id /\ id \notin IdsOf(items)) =>
             items' = items
      /\ lastOp'.op \in {"addItem", "removeItem"} =>
           \A i \in 1..Len(items') :
             /\ DOMAIN items'[i] = {"id", "text"}
             /\ items'[i].id \in 1..MaxId
             /\ NonBlank(items'[i].text)
    ]_vars

\* removeItem ran with an id that findIndex did not find
C7_Witness ==
  /\ lastOp.op = "removeItem"
  /\ lastOp.index = -1
  /\ lastOp.id = 2
  /\ mapIds(items) = <<1, 3>>

\* does text contain query, both lower-cased
ContainsIgnoringCase(text, query) ==
  \E k \in 1..(Len(text) - Len(query) + 1) :
    \A j \in 1..Len(query) :
      toLowerCaseChar(text[k + j - 1]) = toLowerCaseChar(query[j])

\* C8: in every reachable state filteredItems is the ordered sub-sequence of
\* the items whose lower-cased text contains the lower-cased searchQuery; the
\* query 'FIRST' includes the item 'First item'.
C8_FilteredIsCaseInsensitiveMatch ==
  LET Matches(item) == ContainsIgnoringCase(item.text, searchQuery)
  IN  /\ filteredItems = SelectSeq(items, Matches)
      /\ \A i \in 1..Len(items) :
           (searchQuery = <<"F","I","R","S","T">> /\ items[i].text = FirstItemText) =>
             \E k \in 1..Len(filteredItems) : filteredItems[k] = items[i]

\* the view under the query 'FIRST' after the collection changed
C8_Witness ==
  /\ searchQuery = <<"F","I","R","S","T">>
  /\ lastOp.op = "addItem"
  /\ Len(items) = 4
  /\ filteredItems = <<[id |-> 1, text |-> FirstItemText]>>

\* C9: with an empty searchQuery filteredItems holds every item in the
\* collection order.
C9_EmptyQueryShowsAll ==
  searchQuery = EmptyText => filteredItems = items

\* the query was typed and cleared again on a four-item collection
C9_Witness ==
  /\ lastOp.op = "setSearchQuery"
  /\ watchLog = [called |-> TRUE, newValue |-> EmptyText]
  /\ searchQuery = EmptyText
  /\ Len(filteredItems) = 4

\* C10: the collection starts as the three-item seed and changes only in an
\* addItem or removeItem step; changing searchQuery never changes it.
C10_ItemsChangeOnlyByAddRemove ==
  /\ items = SeedItems
  /\ [][ /\ items' # items => lastOp'.op \in {"addItem", "removeItem"}
         /\ lastOp'.op = "setSearchQuery" => items' = items
       ]_vars

\* a query was typed that hides some of the items
C10_Witness ==
  /\ lastOp.op = "setSearchQuery"
  /\ watchLog.called
  /\ searchQuery = <<"x">>
  /\ Len(filteredItems) = 1
  /\ Len(items) = 4

\* C11: addItem and removeItem leave searchQuery unchanged, whether or not
\* the call changes the collection.
C11_AddRemoveKeepQuery ==
  [][ lastOp'.op \in {"addItem", "removeItem"} => searchQuery' = searchQuery ]_vars

\* an item was appended while a query was set
C11_Witness ==
  /\ lastOp.op = "addItem"
  /\ lastOp.id = 4
  /\ searchQuery = <<"i","t","e","m">>
  /\ Len(items) = 4

\* C12: over a sequence of addItem calls without removes the collection
\* length grows by exactly the number of calls whose text is non-empty after
\* trimming; starting from an empty collection it equals that number.
C12_LengthCountsNonBlankAdds ==
  /\ Len(items) = baseLen + nonBlankAdds
  /\ baseLen = 0 => Len(items) = nonBlankAdds

\* two accepted and at least one rejected addItem on the emptied collection
C12_Witness ==
  /\ baseLen = 0
  /\ nonBlankAdds = 2
  /\ lastOp.op = "addItem"
  /\ lastOp.id = 0
  /\ newItemText = BlankText

\* the seed after addItem('Fourth item'), and after removeItem(2) on that
SeedPlusFourth == Append(SeedItems, [id |-> 4, text |-> FourthItemText])
SeedPlusFourthMinusSecond ==
  << [id |-> 1, text |-> FirstItemText],
     [id |-> 3, text |-> ThirdItemText],
     [id |-> 4, text |-> FourthItemText] >>

\* C13: from the seed, addItem('Fourth item') yields four items with
\* {4,'Fourth item'} last; removeItem(2) then yields the ids [1,3,4] in that
\* order; with searchQuery 'item' filteredItems then holds all three items.
C13_Scenario ==
  [][ /\ (items = SeedItems /\ lastOp'.op = "addItem" /\ newItemText = FourthItemText) =>
           (Len(items') = 4 /\ items' = SeedPlusFourth)
      /\ (items = SeedPlusFourth /\ lastOp'.op = "removeItem" /\ lastOp'.id = 2) =>
           (mapIds(items') = <<1, 3, 4>> /\ items' = SeedPlusFourthMinusSecond)
      /\ (items' = SeedPlusFourthMinusSecond /\ searchQuery' = <<"i","t","e","m">>) =>
           (Len(filteredItems') = 3 /\ filteredItems' = items')
    ]_vars

\* the end of the scenario
C13_Witness ==
  /\ items = SeedPlusFourthMinusSecond
  /\ lastOp.op = "setSearchQuery"
  /\ searchQuery = <<"i","t","e","m">>
  /\ Len(filteredItems) = 3

\* C15: the empty-state message is rendered exactly when filteredItems is
\* empty and the display list exactly when it is not; never both, never
\* neither.
C15_ListOrEmptyMessage ==
  /\ renderEmptyMessage(filteredItems) <=> (filteredItems = << >>)
  /\ renderItemsList(filteredItems) <=> (filteredItems # << >>)
  /\ renderEmptyMessage(filteredItems) # renderItemsList(filteredItems)

\* the query hides every item of a non-empty collection
C15_Witness ==
  /\ items # << >>
  /\ filteredItems = << >>
  /\ renderEmptyMessage(filteredItems)
  /\ ~renderItemsList(filteredItems)

\* a step that is an accepted addItem directly after the removeItem that
\* deleted the item holding the maximum id
AddAfterRemovingMax ==
  /\ lastOp.op = "removeItem"
  /\ lastOp.index # -1
  /\ \A n \in IdsOf(items) : lastOp.id > n
  /\ lastOp'.op = "addItem"
  /\ NonBlank(newItemText)

\* C16 as stated: when the item holding the maximum id is removed, the next
\* addItem assigns an id equal to the removed id.
C16_ReassignsRemovedId ==
  [][ AddAfterRemovingMax => items'[Len(items')].id = lastOp.id ]_vars

\* C16 amended: when the item holding the maximum id is removed, the next
\* addItem assigns max-of-remainder + 1 (1 if nothing remains); this is never
\* above the removed id and equals it when the removed id was
\* max-of-remainder + 1, as from the ids {1,2,3}: removeItem(3), addItem -> 3.
C16_ReassignsMaxOfRemainderPlusOne ==
  [][ AddAfterRemovingMax =>
        LET new == items'[Len(items')].id
            maxLeft == IF items = << >> THEN 0
                       ELSE CHOOSE m \in IdsOf(items) : \A n \in IdsOf(items) : n <= m
        IN  /\ new = maxLeft + 1
            /\ new <= lastOp.id
            /\ (lastOp.id = maxLeft + 1) => (new = lastOp.id)
            /\ (mapIds(items) = <<1, 2>> /\ lastOp.id = 3) => (new = 3)
    ]_vars

\* from the ids {1,2,3}: removeItem(3), then addItem('Fourth item') got id 3
C16_Witness ==
  /\ lastOp.op = "addItem"
  /\ lastOp.id = 3
  /\ mapIds(items) = <<1, 2, 3>>
  /\ items[3].text = FourthItemText

(***************************************************************************)
(* Properties of the component with the interval timer                     *)
(***************************************************************************)
\* C14: the interval that increments count is live from mounted until the
\* before-unmount callbacks have run; no tick increments count before the
\* component is mounted or after it has been unmounted.
C14_TimerLiveOnlyWhileMounted ==
  /\ [](timer <=> phase \in {"mounted", "updating"})
  /\ [][ count' # count => (phase = "mounted" /\ timer) ]_vars
  /\ [][ phase = "unmounted" => count' = count ]_vars

\* the timer ticked while mounted and the component has been unmounted
C14_Witness ==
  /\ phase = "unmounted"
  /\ count > 0
  /\ ~timer
  /\ beforeUnmountHooks = <<"clearInterval">>

\* the positions of a hook in the sequence of invoked hooks
PositionsOf(hook) == {i \in 1..Len(hookLog) : hookLog[i] = hook}

C20_StatusCycle ==
  /\ [](/\ status \in {"active", "inactive", "unknown"}
        /\ toggleStatusOf(toggleStatusOf(toggleStatusOf(status))) = status
        /\ toggleStatusOf(status) # status
        /\ toggleStatusOf(toggleStatusOf(status)) # status
        /\ Cardinality(statusParagraphs(status)) = 1
        /\ statusParagraphs(status) =
             {IF status = "active" THEN "The status is active"
              ELSE IF status = "inactive" THEN "The status is inactive"
              ELSE "The status is unknown"})
  /\ [][ lifeLastOp' = "toggleStatus" =>
           status' = ("active" :> "inactive" @@ "inactive" :> "unknown"
                      @@ "unknown" :> "active")[status] ]_vars

\* toggleStatus has just brought the status back to its initial value
C20_Witness ==
  /\ lifeLastOp = "toggleStatus"
  /\ status = "active"
  /\ dirty

(***************************************************************************)
(* Properties of the App.vue todo list                                     *)
(***************************************************************************)
\* C18: in every state reachable from the seed ids [1,2,3] by addItem and
\* removeItem calls the ids of the live todo items are pairwise distinct.
C18_TodoIdsDistinct ==
  \A i, j \in 1..Len(appItems) : i # j => appItems[i].id # appItems[j].id

\* C19: the Remove button of a row removes exactly that row's item and the
\* Mark Complete / Mark Active button of a row flips exactly that row's
\* completed flag.
C19_RowButtonActsOnItsRow ==
  [][ /\ appLastOp'.op = "removeItem" =>
           LET row == appLastOp'.row
           IN  appItems' = SubSeq(appItems, 1, row - 1)
                             \o SubSeq(appItems, row + 1, Len(appItems))
      /\ appLastOp'.op = "toggleItemCompletion" =>
           LET row == appLastOp'.row
           IN  appItems' = [appItems EXCEPT ![row].completed = ~appItems[row].completed]
    ]_vars

(***************************************************************************)
(* C21: in every reachable state activeItemsCount is the number of items   *)
(* whose completed flag is false; toggleItemCompletion(id) flips the       *)
(* completed flag of exactly one item, which has that id, and changes      *)
(* nothing else (length, order, ids, names); with an absent id it leaves   *)
(* the list as it was; calling it again with the same id gives back the    *)
(* list it started from.                                                   *)
(***************************************************************************)
C21_ActiveCountAndToggle ==
  /\ [](activeItemsCount(appItems)
          = Cardinality({i \in 1..Len(appItems) : appItems[i].completed = FALSE}))
  /\ [][appLastOp'.op = "toggleItemCompletion(id)" =>
         LET id == appLastOp'.id
             changed == {i \in 1..Len(appItems) : appItems'[i] # appItems[i]}
         IN  /\ Len(appItems') = Len(appItems)
             /\ \A i \in 1..Len(appItems) :
                   /\ appItems'[i].id = appItems[i].id
                   /\ appItems'[i].name = appItems[i].name
             /\ IF id \in IdsOf(appItems)
                  THEN \E i \in 1..Len(appItems) :
                         /\ changed = {i}
                         /\ appItems[i].id = id
                         /\ appItems'[i].completed = ~appItems[i].completed
                  ELSE appItems' = appItems
             /\ toggleItemCompletion(appItems', id) = appItems]_vars

\* the seed item with id 2, which starts completed, has been toggled to not
\* completed, and the last call was made with an id no item has
C21_Witness ==
  /\ appLastOp.op = "toggleItemCompletion(id)"
  /\ appLastOp.id \notin IdsOf(appItems)
  /\ Len(appItems) = 3
  /\ appItems[2] = [AppSeedItems[2] EXCEPT !.completed = FALSE]
  /\ activeItemsCount(appItems) = 3

(***************************************************************************)
(* C22: addItem appends an item exactly when the text of the new-item      *)
(* input has a character that is not whitespace; when it appends,          *)
(* newItemText becomes the empty string; when the text is empty or only    *)
(* whitespace, newItemText keeps the value it had.                         *)
(***************************************************************************)
C22_AddClearsInputOnlyWhenAppending ==
  [][lastOp'.op = "addItem" =>
       /\ (Len(items') = Len(items) + 1) <=> NonBlank(newItemText)
       /\ Len(items') = Len(items) + 1 => newItemText' = EmptyText
       /\ Len(items') # Len(items) + 1 =>
            /\ items' = items
            /\ newItemText' = newItemText]_vars

\* addItem has been called with a whitespace-only text, which is still in
\* the input, after an earlier call appended the fourth item
C22_Witness ==
  /\ lastOp.op = "addItem"
  /\ lastOp.id = 0
  /\ newItemText = BlankText
  /\ Len(items) = 4
  /\ items[4].text \in {FourthItemText, PaddedText}

(***************************************************************************)
(* C23: every change of the url starts a new request for the new url, and  *)
(* whenever no request is in flight and data holds a response, it is the   *)
(* response to the url requested last; a response to an earlier request    *)
(* never replaces the response to a later one.                             *)
(***************************************************************************)
C23_LatestResponseWins ==
  /\ [][apiUrl' # apiUrl =>
          /\ started' = started + 1
          /\ [req |-> started', url |-> apiUrl'] \in inFlight']_vars
  /\ []((inFlight = {} /\ data.kind = "json") =>
          (data.url = apiUrl /\ data.req = started))
  /\ [][(data.kind = "json" /\ data'.kind = "json") => data'.req >= data.req]_vars

(***************************************************************************)
(* C24: data and error are never both set, and loading is true exactly     *)
(* while some request that fetchData started has not settled.              *)
(***************************************************************************)
C24_ExclusiveResultAndLoading ==
  /\ ~(data # Null /\ error # Null)
  /\ loading <=> (inFlight # {})

\* a non-empty string without white space
Word(s) == Len(s) > 0 /\ \A k \in 1..Len(s) : s[k] \notin WhiteSpace

\* the string is a word, "@", a word, "." and a word
MatchesEmailPattern(s) ==
  \E i \in 1..Len(s) : \E j \in 1..Len(s) :
    /\ i < j
    /\ s[i] = "@"
    /\ s[j] = "."
    /\ Word(SubSeq(s, 1, i - 1))
    /\ Word(SubSeq(s, i + 1, j - 1))
    /\ Word(SubSeq(s, j + 1, Len(s)))

\* the fields of the form that fail validation
FailingFields(form) ==
  {f \in {"name", "email", "message"} :
     \/ form[f] = EmptyText
     \/ f = "email" /\ ~MatchesEmailPattern(form.email)}

(***************************************************************************)
(* C25: validateForm returns true exactly when name, email and message are *)
(* non-empty and the email matches the pattern, and otherwise errors has   *)
(* an entry for exactly the failing fields; a submitForm call whose        *)
(* validation fails leaves submitted and formData as they were; submitted  *)
(* becomes true, together with formData becoming empty, only in a          *)
(* submitForm call whose validation returned true.                         *)
(***************************************************************************)
C25_ValidateThenSubmit ==
  /\ [][formLastOp'.op = "submitForm" =>
          /\ formLastOp'.valid <=>
               /\ formData.name # EmptyText
               /\ formData.email # EmptyText
               /\ formData.message # EmptyText
               /\ MatchesEmailPattern(formData.email)
          /\ DOMAIN errors' = FailingFields(formData)
          /\ formData.email = <<"a","@","b">> => errors'.email = "Email is invalid"
          /\ formData.email = EmptyText => errors'.email = "Email is required"
          /\ submitted' = submitted
          /\ formData' = formData
          /\ ~formLastOp'.valid => pendingSubmits' = pendingSubmits]_vars
  /\ [][submitted' # submitted =>
          /\ formLastOp'.op = "submitFormResumed"
          /\ pendingSubmits > 0
          /\ submitted' = TRUE
          /\ formData' = EmptyForm]_vars
  /\ [](submitted => formData = EmptyForm)

\* a valid form was submitted and, while that call waited, the form was
\* submitted again with an invalid email; then the first call completed
C25_Witness ==
  /\ submitted = TRUE
  /\ formData = EmptyForm
  /\ DOMAIN errors = {"email"}
  /\ errors.email = "Email is invalid"

(***************************************************************************)
(* C26: selectedCourses never holds two courses with the same id; a call   *)
(* of selectCourse with a course whose id is already selected returns      *)
(* false and leaves selectedCourses as it was; any other call appends the  *)
(* course at the end and returns true.                                     *)
(***************************************************************************)
C26_SelectedCoursesDistinct ==
  /\ [](\A i \in 1..Len(selectedCourses) : \A j \in 1..Len(selectedCourses) :
          selectedCourses[i].id = selectedCourses[j].id => i = j)
  /\ [][storeLastOp'.op = "selectCourse" =>
          LET course == storeLastOp'.course
          IN  IF course.id \in IdsOf(selectedCourses)
                THEN /\ storeLastOp'.result = FALSE
                     /\ selectedCourses' = selectedCourses
                ELSE /\ storeLastOp'.result = TRUE
                     /\ selectedCourses' = selectedCourses \o <<course>>]_vars

\* two courses are selected and the last call, with another course of the
\* first one's id, was refused
C26_Witness ==
  /\ Len(selectedCourses) = 2
  /\ storeLastOp.result = FALSE
  /\ storeLastOp.course.id = selectedCourses[1].id
  /\ storeLastOp.course # selectedCourses[1]
====
